---- MODULE Spec2Model ----
(***************************************************************************)
(* Model of raffle_selection.py: the balance loaders, calculate_weights,   *)
(* weighted_random_selection (with the steps of random.choices it relies   *)
(* on), query_dune, main and the command-line wrapper.                     *)
(*                                                                         *)
(* Balances are integers: arithmetic is exact, float rounding is not       *)
(* modelled.  A probability w / total_weight is kept as its numerator over *)
(* the common denominator |total_weight|.  A dict is a record of its keys  *)
(* in insertion order and its values.  An optional argument is <<>> for    *)
(* None and <<v>> for a given value v.                                     *)
(***************************************************************************)
EXTENDS Integers, Sequences, FiniteSets, TLC

VARIABLES entry, pc, file_path, num_winners, block_number, api_key, source, rows,
          balances, weights, winners, results, exc, output,
          httpCalls, httpStatus, fileReads, weightCalcs, randomDraws

vars == <<entry, pc, file_path, num_winners, block_number, api_key, source, rows,
          balances, weights, winners, results, exc, output,
          httpCalls, httpStatus, fileReads, weightCalcs, randomDraws>>

---------------------------------------------------------------------------
(* Bounds of the model *)

MaxRows == 2

MaxWinners == 2

(* Input domains *)

Addresses == {"0x1", "0x2"}

SelAddresses == {"0x1", "0x2", "0x3"}

AddressUniverse == <<"0x1", "0x2", "0x3">>

RowTokens == {"AR", "AISTR", "ALCH", "DOGE"}

BalanceCells == {<<"num", -1>>, <<"num", 1>>, <<"text", 0>>}

HoldingAmounts == {-1, 0, 2}

SelWeights == {-1, 0, 1, 2}

FilePaths == {<<>>, <<<<"balances", ".csv">>>>, <<<<"balances", ".xlsx">>>>,
              <<<<"balances", ".txt">>>>}

BlockNumbers == {<<>>, <<0>>, <<1>>}

ApiKeys == {<<>>, <<"key">>}

Responses == {[kind |-> "response", status_code |-> 200],
              [kind |-> "response", status_code |-> 404],
              [kind |-> "response", status_code |-> 500],
              [kind |-> "connection_error", status_code |-> 0]}

---------------------------------------------------------------------------
(* Dicts in insertion order *)

EmptyDict == [keys |-> <<>>, val |-> [k \in {} |-> 0]]

Keys(d) == {d.keys[i] : i \in 1..Len(d.keys)}

dict_set(d, k, v) ==
    [keys |-> IF k \in Keys(d) THEN d.keys ELSE Append(d.keys, k),
     val  |-> [x \in Keys(d) \cup {k} |-> IF x = k THEN v ELSE d.val[x]]]

RECURSIVE SumSeq(_)
SumSeq(s) == IF s = <<>> THEN 0 ELSE s[1] + SumSeq(Tail(s))

Values(d) == [i \in 1..Len(d.keys) |-> d.val[d.keys[i]]]

(* Messages and exceptions *)

MsgMissingInput == "Either a file path or Dune API key with block number must be provided."

MsgUnsupported == "Unsupported file format. Please provide a .csv or .xlsx file."

MsgFloat == "could not convert string to float"

MsgDune == "Dune API query failed with status"

NoExc == [type |-> "", msg |-> ""]

Raise(t, m) == [type |-> t, msg |-> m]

---------------------------------------------------------------------------
(* The loaders *)

Tokens == {"AR", "AISTR", "ALCH"}

DefaultHoldings == [AR |-> 0, AISTR |-> 0, ALCH |-> 0]

defaultdict_get(d, address) ==
    IF address \in Keys(d) THEN d ELSE dict_set(d, address, DefaultHoldings)

float_ok(cell) == cell[1] = "num"

float(cell) == cell[2]

add_balance_mut(old, balance) == balance

add_balance(old, balance) == old + balance

add_row(d, row) ==
    LET address == row.address
        token   == row.token
        balance == float(row.balance)
        touched == defaultdict_get(d, address)
    IN  IF token \in DOMAIN touched.val[address]
        THEN dict_set(touched, address,
                      [touched.val[address] EXCEPT ![token] = add_balance(@, balance)])
        ELSE touched

endswith(path, suffix) == Len(path) > 0 /\ path[Len(path)] = suffix

---------------------------------------------------------------------------
(* calculate_weights *)

sum_values(holdings) == holdings.AR + holdings.AISTR + holdings.ALCH

is_positive_mut(total_balance) == total_balance >= 0

is_positive(total_balance) == total_balance > 0

RECURSIVE calculate_weights_loop(_, _, _)
calculate_weights_loop(b, i, w) ==
    IF i > Len(b.keys) THEN w
    ELSE LET address       == b.keys[i]
             total_balance == sum_values(b.val[address])
         IN  calculate_weights_loop(b, i + 1,
                 IF is_positive(total_balance)
                 THEN dict_set(w, address, total_balance)
                 ELSE w)

calculate_weights(b) == calculate_weights_loop(b, 1, EmptyDict)

---------------------------------------------------------------------------
(* weighted_random_selection *)

total_weight(w) == SumSeq(Values(w))

weighted_addresses(w) == w.keys

Sign(n) == IF n > 0 THEN 1 ELSE IF n < 0 THEN -1 ELSE 0

(* weights[addr] / total_weight, as the numerator over |total_weight| *)
probabilities(w) ==
    [i \in 1..Len(w.keys) |-> w.val[w.keys[i]] * Sign(total_weight(w))]

(* itertools.accumulate *)
accumulate(p) == [i \in 1..Len(p) |-> SumSeq(SubSeq(p, 1, i))]

cum_weights(w) == accumulate(probabilities(w))

(* bisect.bisect_right(a, x, lo, hi), indices counted from 0 *)
less_than_mut(x, a) == x <= a

less_than(x, a) == x < a

RECURSIVE bisect(_, _, _, _)
bisect(a, x, lo, hi) ==
    IF lo < hi
    THEN LET mid == (lo + hi) \div 2
         IN  IF less_than(x, a[mid + 1])
             THEN bisect(a, x, lo, mid)
             ELSE bisect(a, x, mid + 1, hi)
    ELSE lo

(* the exception the call raises before any draw, NoExc when it raises none *)
selection_error(w) ==
    IF Len(w.keys) > 0 /\ total_weight(w) = 0
    THEN Raise("ZeroDivisionError", "division by zero")
    ELSE IF Len(cum_weights(w)) # Len(weighted_addresses(w))
    THEN Raise("ValueError", "The number of weights does not match the population")
    ELSE IF Len(cum_weights(w)) = 0
    THEN Raise("IndexError", "list index out of range")
    ELSE IF cum_weights(w)[Len(cum_weights(w))] <= 0
    THEN Raise("ValueError", "Total of weights must be greater than zero")
    ELSE NoExc

(* random() * total lies in [0, total); u stands for the values in [u, u+1) *)
RandomRange(w) == 0..(cum_weights(w)[Len(cum_weights(w))] - 1)

choices_pick_mut(w, u) ==
    AddressUniverse[bisect(cum_weights(w), u, 0, Len(weighted_addresses(w)) - 1) + 1]

choices_pick(w, u) ==
    weighted_addresses(w)[bisect(cum_weights(w), u, 0, Len(weighted_addresses(w)) - 1) + 1]

more_draws_mut(n, k) == n < k - 1

more_draws(n, k) == n < k

---------------------------------------------------------------------------
(* main and the command line *)

TruthyStr(o) == o # <<>> /\ o[1] # ""

TruthyInt(o) == o # <<>> /\ o[1] # 0

TruthyPath(o) == o # <<>> /\ o[1] # <<>>

query_dune_ok_mut(status_code) == status_code < 500

query_dune_ok(status_code) == status_code = 200

is_value_error(e) == e.type = "ValueError"

print_exception(e) ==
    IF is_value_error(e)
    THEN <<[prefix |-> "", text |-> e.msg]>>
    ELSE <<[prefix |-> "Error: ", text |-> e.msg]>>

print_results(r) ==
    <<[prefix |-> "", text |-> "Selected Winners:"]>> \o
    [i \in 1..Len(r) |-> [prefix |-> "Address: ", text |-> r[i][1], holdings |-> r[i][2]]]

---------------------------------------------------------------------------
(* Inputs *)

NumWinners == (-1)..MaxWinners

Rows == [address : Addresses, token : RowTokens, balance : BalanceCells]

OrderedKeys(S) ==
    {s \in UNION {[1..n -> S] : n \in 0..Cardinality(S)} :
        \A i, j \in 1..Len(s) : i # j => s[i] # s[j]}

Dicts(S, V) ==
    UNION {{[keys |-> ks, val |-> f] : f \in [{ks[i] : i \in 1..Len(ks)} -> V]} :
           ks \in OrderedKeys(S)}

Holdings == [AR : HoldingAmounts, AISTR : HoldingAmounts, ALCH : HoldingAmounts]

Idle ==
    /\ source = "none" /\ rows = <<>> /\ winners = <<>> /\ results = <<>>
    /\ exc = NoExc /\ output = <<>> /\ httpCalls = 0 /\ httpStatus = <<>>
    /\ fileReads = 0 /\ weightCalcs = 0 /\ randomDraws = 0

(* the script run from the command line: lines 115-132 call main *)
InitMain ==
    /\ entry = "main" /\ pc = "main"
    /\ file_path \in FilePaths /\ num_winners \in NumWinners
    /\ block_number \in BlockNumbers /\ api_key \in ApiKeys
    /\ balances = EmptyDict /\ weights = EmptyDict
    /\ Idle

(* a direct call calculate_weights(balances) *)
InitCalculateWeights ==
    /\ entry = "calculate_weights" /\ pc = "loaded"
    /\ file_path = <<>> /\ num_winners = 0 /\ block_number = <<>> /\ api_key = <<>>
    /\ balances \in Dicts(Addresses, Holdings) /\ weights = EmptyDict
    /\ Idle

(* a direct call weighted_random_selection(weights, num_winners) *)
InitSelection ==
    /\ entry = "weighted_random_selection" /\ pc = "select"
    /\ file_path = <<>> /\ num_winners \in NumWinners
    /\ block_number = <<>> /\ api_key = <<>>
    /\ balances = EmptyDict /\ weights \in Dicts(SelAddresses, SelWeights)
    /\ Idle

Init == InitMain \/ InitCalculateWeights \/ InitSelection

---------------------------------------------------------------------------
(* Actions *)

UseDune == TruthyStr(api_key) /\ TruthyInt(block_number)

MainFetchDune ==
    /\ pc = "main" /\ UseDune
    /\ source' = "dune"
    /\ httpCalls' = httpCalls + 1
    /\ \E resp \in Responses :
          /\ httpStatus' = <<resp>>
          /\ IF resp.kind = "response" /\ query_dune_ok(resp.status_code)
             THEN pc' = "rows" /\ exc' = exc
             ELSE /\ pc' = "raised"
                  /\ exc' = IF resp.kind = "response"
                            THEN Raise("Exception", MsgDune)
                            ELSE Raise("ConnectionError", "connection failed")
    /\ UNCHANGED <<entry, file_path, num_winners, block_number, api_key, rows,
                   balances, weights, winners, results, output,
                   fileReads, weightCalcs, randomDraws>>

MainLoadFile ==
    /\ pc = "main" /\ ~UseDune /\ TruthyPath(file_path)
    /\ source' = "file"
    /\ IF \/ endswith(file_path[1], ".csv")
          \/ endswith(file_path[1], ".xlsx")
          \/ endswith(file_path[1], ".xls")
       THEN /\ fileReads' = fileReads + 1
            /\ \E found \in BOOLEAN :
                  IF found
                  THEN pc' = "rows" /\ exc' = exc
                  ELSE pc' = "raised" /\ exc' = Raise("FileNotFoundError", "No such file")
       ELSE /\ fileReads' = fileReads
            /\ pc' = "raised"
            /\ exc' = Raise("ValueError", MsgUnsupported)
    /\ UNCHANGED <<entry, file_path, num_winners, block_number, api_key, rows,
                   balances, weights, winners, results, output,
                   httpCalls, httpStatus, weightCalcs, randomDraws>>

MainNoSource ==
    /\ pc = "main" /\ ~UseDune /\ ~TruthyPath(file_path)
    /\ pc' = "raised"
    /\ exc' = Raise("ValueError", MsgMissingInput)
    /\ UNCHANGED <<entry, file_path, num_winners, block_number, api_key, source,
                   rows, balances, weights, winners, results, output,
                   httpCalls, httpStatus, fileReads, weightCalcs, randomDraws>>

(* one iteration of the row loop of a loader *)
ReadRow ==
    /\ pc = "rows" /\ Len(rows) < MaxRows
    /\ \E row \in Rows :
          IF float_ok(row.balance)
          THEN /\ rows' = Append(rows, row)
               /\ balances' = add_row(balances, row)
               /\ pc' = pc /\ exc' = exc
          ELSE /\ pc' = "raised"
               /\ exc' = Raise("ValueError", MsgFloat)
               /\ UNCHANGED <<rows, balances>>
    /\ UNCHANGED <<entry, file_path, num_winners, block_number, api_key, source,
                   weights, winners, results, output,
                   httpCalls, httpStatus, fileReads, weightCalcs, randomDraws>>

LoaderReturn ==
    /\ pc = "rows"
    /\ pc' = "loaded"
    /\ UNCHANGED <<entry, file_path, num_winners, block_number, api_key, source,
                   rows, balances, weights, winners, results, exc, output,
                   httpCalls, httpStatus, fileReads, weightCalcs, randomDraws>>

CalculateWeights ==
    /\ pc = "loaded"
    /\ weights' = calculate_weights(balances)
    /\ weightCalcs' = weightCalcs + 1
    /\ pc' = IF entry = "main" THEN "select" ELSE "weighed"
    /\ UNCHANGED <<entry, file_path, num_winners, block_number, api_key, source,
                   rows, balances, winners, results, exc, output,
                   httpCalls, httpStatus, fileReads, randomDraws>>

SelectionStart ==
    /\ pc = "select"
    /\ IF selection_error(weights) = NoExc
       THEN pc' = "draw" /\ exc' = exc
       ELSE pc' = "raised" /\ exc' = selection_error(weights)
    /\ UNCHANGED <<entry, file_path, num_winners, block_number, api_key, source,
                   rows, balances, weights, winners, results, output,
                   httpCalls, httpStatus, fileReads, weightCalcs, randomDraws>>

Draw ==
    /\ pc = "draw" /\ more_draws(Len(winners), num_winners)
    /\ \E u \in RandomRange(weights) :
          winners' = Append(winners, choices_pick(weights, u))
    /\ randomDraws' = randomDraws + 1
    /\ UNCHANGED <<entry, pc, file_path, num_winners, block_number, api_key, source,
                   rows, balances, weights, results, exc, output,
                   httpCalls, httpStatus, fileReads, weightCalcs>>

SelectionReturn ==
    /\ pc = "draw" /\ ~more_draws(Len(winners), num_winners)
    /\ pc' = "selected"
    /\ UNCHANGED <<entry, file_path, num_winners, block_number, api_key, source,
                   rows, balances, weights, winners, results, exc, output,
                   httpCalls, httpStatus, fileReads, weightCalcs, randomDraws>>

MainReturn ==
    /\ pc = "selected" /\ entry = "main"
    /\ results' = [i \in 1..Len(winners) |->
                      <<winners[i], defaultdict_get(balances, winners[i]).val[winners[i]]>>]
    /\ pc' = "returned"
    /\ UNCHANGED <<entry, file_path, num_winners, block_number, api_key, source,
                   rows, balances, weights, winners, exc, output,
                   httpCalls, httpStatus, fileReads, weightCalcs, randomDraws>>

CliPrintWinners ==
    /\ pc = "returned"
    /\ output' = print_results(results)
    /\ pc' = "done"
    /\ UNCHANGED <<entry, file_path, num_winners, block_number, api_key, source,
                   rows, balances, weights, winners, results, exc,
                   httpCalls, httpStatus, fileReads, weightCalcs, randomDraws>>

CliPrintError ==
    /\ pc = "raised" /\ entry = "main"
    /\ output' = print_exception(exc)
    /\ pc' = "done"
    /\ UNCHANGED <<entry, file_path, num_winners, block_number, api_key, source,
                   rows, balances, weights, winners, results, exc,
                   httpCalls, httpStatus, fileReads, weightCalcs, randomDraws>>

Next ==
    \/ MainFetchDune \/ MainLoadFile \/ MainNoSource
    \/ ReadRow \/ LoaderReturn
    \/ CalculateWeights
    \/ SelectionStart \/ Draw \/ SelectionReturn
    \/ MainReturn
    \/ CliPrintWinners \/ CliPrintError

Spec == Init /\ [][Next]_vars

---------------------------------------------------------------------------
(* Properties *)

PositiveSum(b) == {a \in Keys(b) : sum_values(b.val[a]) > 0}

RECURSIVE HoldingsOf(_, _)
HoldingsOf(S, b) ==
    IF S = {} THEN 0
    ELSE LET a == CHOOSE x \in S : TRUE
         IN  b.val[a].AR + b.val[a].AISTR + b.val[a].ALCH + HoldingsOf(S \ {a}, b)

RECURSIVE WeightOf(_, _)
WeightOf(S, w) ==
    IF S = {} THEN 0
    ELSE LET a == CHOOSE x \in S : TRUE IN w.val[a] + WeightOf(S \ {a}, w)

RECURSIVE RowSum(_, _, _)
RowSum(rs, a, t) ==
    IF rs = <<>> THEN 0
    ELSE (IF rs[1].address = a /\ rs[1].token = t THEN rs[1].balance[2] ELSE 0)
         + RowSum(Tail(rs), a, t)

RowAddresses == {rows[i].address : i \in 1..Len(rows)}

OnlyUnrecognised(a) ==
    /\ a \in RowAddresses
    /\ \A i \in 1..Len(rows) : rows[i].address = a => rows[i].token \notin Tokens

Winners == {winners[i] : i \in 1..Len(winners)}

NonZero(w) == {a \in Keys(w) : w.val[a] # 0}

(* C1: calculate_weights returns exactly the addresses whose token amounts
   sum to more than 0, each with that sum as its weight; the weights add up
   to the holdings of those addresses; an empty input gives an empty output
   and no error. *)
TheoremC1 ==
    weightCalcs > 0 =>
        /\ Keys(weights) = PositiveSum(balances)
        /\ Len(weights.keys) = Cardinality(PositiveSum(balances))
        /\ \A a \in Keys(weights) :
              weights.val[a] = balances.val[a].AR + balances.val[a].AISTR
                               + balances.val[a].ALCH
        /\ WeightOf(Keys(weights), weights) = HoldingsOf(PositiveSum(balances), balances)
        /\ (balances.keys = <<>> => weights.keys = <<>>)
        /\ (entry = "calculate_weights" => pc = "weighed" /\ exc = NoExc)

WitnessC1 ==
    /\ entry = "calculate_weights" /\ pc = "weighed"
    /\ Len(balances.keys) = 2 /\ Len(weights.keys) = 1
    /\ \E a \in Keys(balances) : sum_values(balances.val[a]) = 0

(* C2: every address in the list of winners is a key of the weight mapping,
   for every weight mapping, every k and every value of the random source. *)
TheoremC2 ==
    \A i \in 1..Len(winners) : winners[i] \in Keys(weights)

WitnessC2 ==
    /\ entry = "weighted_random_selection" /\ pc = "selected"
    /\ Len(winners) = 2 /\ Keys(weights) # SelAddresses
    /\ winners[1] # winners[2]

(* C3: with a non-empty weight mapping of positive total weight and k >= 0,
   weighted_random_selection returns exactly k addresses; main returns exactly
   num_winners pairs when its balance source yields a positive-sum address. *)
TheoremC3 ==
    /\ ( /\ entry = "weighted_random_selection"
         /\ weights.keys # <<>> /\ WeightOf(Keys(weights), weights) > 0
         /\ num_winners >= 0 )
       => /\ pc # "raised"
          /\ Len(winners) <= num_winners
          /\ (pc = "draw" /\ Len(winners) < num_winners => RandomRange(weights) # {})
          /\ (pc = "selected" => Len(winners) = num_winners)
    /\ ( /\ entry = "main" /\ weightCalcs > 0
         /\ PositiveSum(balances) # {} /\ num_winners >= 0 )
       => /\ pc # "raised"
          /\ (pc = "draw" /\ Len(winners) < num_winners => RandomRange(weights) # {})
          /\ (pc \in {"returned", "done"} =>
                /\ Len(results) = num_winners
                /\ \A i \in 1..Len(results) :
                      results[i] = <<winners[i], balances.val[winners[i]]>>)

WitnessC3 ==
    /\ entry = "weighted_random_selection" /\ pc = "selected"
    /\ Len(weights.keys) >= 2 /\ num_winners = 2
    /\ Len(winners) = 2 /\ winners[1] = winners[2]

(* C4: a call weighted_random_selection(weights, 0) returns the empty list
   and raises no error, for every weight mapping. *)
ClaimC4 ==
    (entry = "weighted_random_selection" /\ num_winners = 0) =>
        /\ pc # "raised"
        /\ (pc = "selected" => winners = <<>>)

(* C5: with k > 0 and a weight mapping that is empty or of total weight
   zero, weighted_random_selection fails with a ValueError, and so does main
   when no loaded address has positive holdings. *)
ClaimC5 ==
    /\ ( /\ entry = "weighted_random_selection" /\ num_winners > 0
         /\ (weights.keys = <<>> \/ WeightOf(Keys(weights), weights) = 0)
         /\ pc \notin {"select"} )
       => (pc = "raised" /\ exc.type = "ValueError")
    /\ ( /\ entry = "main" /\ num_winners > 0 /\ weightCalcs > 0
         /\ PositiveSum(balances) = {}
         /\ pc \notin {"select"} )
       => (pc \in {"raised", "done"} /\ exc.type = "ValueError")

(* C6: with positive total weight no address of weight 0 is ever a winner;
   when one address holds all the nonzero weight, every winner is that
   address. *)
TheoremC6 ==
    WeightOf(Keys(weights), weights) > 0 =>
        /\ \A i \in 1..Len(winners) : weights.val[winners[i]] # 0
        /\ (Cardinality(NonZero(weights)) = 1 => Winners \subseteq NonZero(weights))

WitnessC6 ==
    /\ entry = "weighted_random_selection" /\ pc = "selected"
    /\ Len(weights.keys) = 3 /\ weights.val[weights.keys[1]] = 0
    /\ weights.val[weights.keys[3]] = 0
    /\ Cardinality(NonZero(weights)) = 1 /\ Len(winners) = 2

(* C7: every failure of a run is printed; a missing input combination is
   printed as the plain message, every other failure (HTTP failure, parse
   failure of a balance value or of the input file) with the "Error:"
   prefix, and no "Selected Winners:" header is printed. *)
ClaimC7 ==
    (entry = "main" /\ pc = "done" /\ exc # NoExc) =>
        /\ Len(output) = 1
        /\ output[1].text = exc.msg
        /\ (exc.msg = MsgMissingInput => output[1].prefix = "")
        /\ (exc.msg # MsgMissingInput => output[1].prefix = "Error: ")

(* C8: a run makes at most one HTTP call; after a failed or non-200 response
   the run is aborted with an error: no retry, no weight calculation, no
   draw from the random source and no winners. *)
HttpFailed ==
    /\ httpStatus # <<>>
    /\ (httpStatus[1].kind # "response" \/ httpStatus[1].status_code # 200)

TheoremC8 ==
    /\ httpCalls <= 1
    /\ HttpFailed =>
          /\ pc \in {"raised", "done"}
          /\ exc # NoExc /\ exc.type # "ValueError"
          /\ weightCalcs = 0 /\ randomDraws = 0 /\ fileReads = 0
          /\ rows = <<>> /\ winners = <<>> /\ results = <<>>
          /\ (pc = "done" => output = <<[prefix |-> "Error: ", text |-> exc.msg]>>)

WitnessC8 ==
    /\ pc = "done" /\ httpCalls = 1 /\ httpStatus # <<>>
    /\ httpStatus[1].kind = "response" /\ httpStatus[1].status_code = 404
    /\ file_path # <<>>

(* C9: main fetches from Dune exactly when api_key and block_number are both
   provided, for every provided block number including 0; otherwise it loads
   the file when file_path is provided, and otherwise raises ValueError
   before any HTTP call, file read, weight calculation or draw. *)
ClaimC9 ==
    (entry = "main" /\ pc # "main") =>
        /\ (source = "dune") <=> (api_key # <<>> /\ block_number # <<>>)
        /\ (source = "file") <=>
              (~(api_key # <<>> /\ block_number # <<>>) /\ file_path # <<>>)
        /\ (source = "none") =>
              /\ exc = Raise("ValueError", MsgMissingInput)
              /\ httpCalls = 0 /\ fileReads = 0 /\ weightCalcs = 0 /\ randomDraws = 0

(* C10: each recognised token amount of an address is the sum of the balance
   values of the rows read with that address and token; rows with another
   token add nothing but create an all-zero entry, and an address seen only
   with unrecognised tokens gets no weight and is never a winner of main. *)
TheoremC10 ==
    entry = "main" =>
        /\ Keys(balances) = RowAddresses
        /\ \A a \in Keys(balances) :
              /\ DOMAIN balances.val[a] = Tokens
              /\ \A t \in Tokens : balances.val[a][t] = RowSum(rows, a, t)
        /\ \A a \in Addresses : OnlyUnrecognised(a) =>
              /\ balances.val[a] = [AR |-> 0, AISTR |-> 0, ALCH |-> 0]
              /\ a \notin Keys(weights)
              /\ a \notin Winners
              /\ \A i \in 1..Len(results) : results[i][1] # a

WitnessC10 ==
    /\ entry = "main" /\ pc = "done" /\ Len(results) >= 1
    /\ \E a \in Addresses : OnlyUnrecognised(a)

====
